---- MODULE Spec2Model ----
(***************************************************************************)
(* Model of the line-delimited JSON-RPC server of                          *)
(* timber_mcp_protocol_server.py: module start-up (LOCAL_MODE), the        *)
(* MCPServer.run session loop, MCPServer.handle_request and                *)
(* MCPServer.query_knowledge_base with its two blocking backend calls.     *)
(*                                                                         *)
(* Values.  A JSON text value and the Python value json.loads makes of it  *)
(* are tagged records [t |-> tag, ...].  An object / dict carries its      *)
(* members in the field d, a TLA+ function whose DOMAIN is exactly the set *)
(* of keys present, so "key in dict" is  key \in DOMAIN v.d.               *)
(***************************************************************************)
EXTENDS Integers, Sequences, FiniteSets, TLC

\* ---------------------------------------------------------------- bounds
MaxLines == 2          \* lines the session reads from standard input
MaxPassages == 1       \* passages one retrieval call returns in the model

\* ------------------------------------------------------- JSON text values
\* The characters of a string are kept as a sequence of pieces, so that an
\* f-string is the concatenation of its literal parts and formatted values.
JNull == [t |-> "null"]
JFalse == [t |-> "false"]
JArr(items) == [t |-> "array", items |-> items]
JNum(n) == [t |-> "number", n |-> n]
JStr(s) == [t |-> "string", s |-> s]
JObj(members) == [t |-> "object", d |-> members]

\* the members of an object given as a set of <<key, value>> pairs
Members(S) == [k \in {p[1] : p \in S} |-> (CHOOSE p \in S : p[1] = k)[2]]

\* ----------------------------------------------------------- Python values
None == [t |-> "None"]
PyFalse == [t |-> "False"]
PyList(items) == [t |-> "list", items |-> items]
PyInt(n) == [t |-> "int", n |-> n]
PyStr(s) == [t |-> "str", s |-> s]
PyDict(members) == [t |-> "dict", d |-> members]
Unbound == [t |-> "unbound"]        \* a local variable not yet assigned

IsDict(v) == v.t = "dict"

\* dict.get(key, default)
Get(v, key, default) == IF key \in DOMAIN v.d THEN v.d[key] ELSE default

\* str(v) as an f-string field formats it
Format(v) ==
    CASE v.t = "str" -> v.s
      [] v.t = "None" -> <<"None">>
      [] v.t = "int" -> <<ToString(v.n)>>
      [] v.t = "list" -> <<"[...]">>
      [] v.t = "dict" -> <<"{...}">>
      [] OTHER -> <<"?">>

\* the value json.loads builds from a JSON text value
RECURSIVE Decode(_)
Decode(j) ==
    CASE j.t = "null" -> None
      [] j.t = "false" -> PyFalse
      [] j.t = "array" -> PyList([i \in DOMAIN j.items |-> Decode(j.items[i])])
      [] j.t = "number" -> PyInt(j.n)
      [] j.t = "string" -> PyStr(j.s)
      [] j.t = "object" -> PyDict([k \in DOMAIN j.d |-> Decode(j.d[k])])

\* the JSON text value json.dumps writes for a Python value
RECURSIVE Encode(_)
Encode(v) ==
    CASE v.t = "None" -> JNull
      [] v.t = "False" -> JFalse
      [] v.t = "list" -> JArr([i \in DOMAIN v.items |-> Encode(v.items[i])])
      [] v.t = "int" -> JNum(v.n)
      [] v.t = "str" -> JStr(v.s)
      [] v.t = "dict" -> JObj([k \in DOMAIN v.d |-> Encode(v.d[k])])

\* ------------------------------------------------------------ input lines
\* A line of standard input is one of: a bare newline, whitespace only, text
\* that is not JSON, JSON nested deeper than the interpreter's recursion
\* limit, text that is not JSON and opens more brackets than that limit
\* (2000 times "["), or the text of a JSON value.
BlankLines == {[raw |-> "newline"], [raw |-> "spaces"]}
GarbageLine == [raw |-> "garbage"]
DeepLine == [raw |-> "deep"]
DeepGarbageLine == [raw |-> "deep_garbage"]
JsonLine(j) == [raw |-> "json", j |-> j]

\* The members a request object can have besides its id.
QueryMembers == {{}, {<<"query", JStr(<<"ping">>)>>}}
ArgumentsValues == {JObj(Members(q)) : q \in QueryMembers} \cup {JStr(<<"ping">>)}
ArgumentsMembers == {{}} \cup {{<<"arguments", a>>} : a \in ArgumentsValues}
RegisteredName == {<<"name", JStr(<<"query_timber_kb">>)>>}
UnregisteredName == {<<"name", JStr(<<"query_timber_knowledge">>)>>}
PingArguments == {<<"arguments", JObj(Members({<<"query", JStr(<<"ping">>)>>}))>>}
CallParams ==
    {JObj(Members(RegisteredName \cup a)) : a \in ArgumentsMembers}
    \cup {JObj(Members(UnregisteredName \cup PingArguments)), JObj(<<>>)}
CallParamsMembers == {{}} \cup {{<<"params", p>>} : p \in CallParams \cup {JArr(<<>>)}}
OtherParamsMembers == {{}, {<<"params", JArr(<<>>)>>}}
ListingMethodMembers ==
    {{<<"method", JStr(<<"initialize">>)>>}, {<<"method", JStr(<<"tools/list">>)>>}}
UnknownMethodMembers == {{}, {<<"method", JStr(<<"ping">>)>>}}
CallMethodMembers == {{<<"method", JStr(<<"tools/call">>)>>}}

RequestShapes ==
    {m \cup p : m \in ListingMethodMembers, p \in OtherParamsMembers}
    \cup UnknownMethodMembers
    \cup {m \cup p : m \in CallMethodMembers, p \in CallParamsMembers}

\* the shapes sent without an id, and those sent with the second id
CallPing ==
    {<<"method", JStr(<<"tools/call">>)>>,
     <<"params", JObj(Members(RegisteredName \cup PingArguments))>>}
CallArrayParams == {<<"method", JStr(<<"tools/call">>)>>, <<"params", JArr(<<>>)>>}
NoIdShapes ==
    UnknownMethodMembers
    \cup {{<<"method", JStr(<<"initialize">>)>>}, CallPing, CallArrayParams}
SecondIdShapes == {{}, CallPing, CallArrayParams}

\* Every shape is sent with id 1, some without an id, some with id 2.
RequestObjects ==
    {JObj(Members({<<"id", JNum(1)>>} \cup m)) : m \in RequestShapes}
    \cup {JObj(Members(m)) : m \in NoIdShapes}
    \cup {JObj(Members({<<"id", JNum(2)>>} \cup m)) : m \in SecondIdShapes}

NonObjects == {JArr(<<>>), JNum(7), JStr(<<"hello">>), JNull}

Lines ==
    BlankLines \cup {GarbageLine, DeepLine, DeepGarbageLine}
    \cup {JsonLine(j) : j \in RequestObjects \cup NonObjects}

\* line.strip(): a line of whitespace becomes the empty string
Strip(l) == IF l.raw \in {"newline", "spaces"} THEN [raw |-> "empty"] ELSE l

\* json.loads(line): the value, or the exception it raises; the scanner
\* exceeds the recursion limit before it reaches the end of a deep line
json_loads(l) ==
    CASE l.raw = "json" -> [exc |-> "none", val |-> Decode(l.j)]
      [] l.raw \in {"deep", "deep_garbage"} -> [exc |-> "RecursionError"]
      [] OTHER -> [exc |-> "JSONDecodeError"]

\* ---------------------------------------------------------------- start-up
Unset == "<unset>"
EnvValues == {Unset, "true", "TRUE", "True", "false", "1"}

\* str.lower() on the values of EnvValues
Lower(s) == IF s \in {"TRUE", "True"} THEN "true" ELSE s

\* os.environ.get("LOCAL_MODE", "true").lower() == "true"
LocalModeFlag(env) == Lower(IF env = Unset THEN "true" ELSE env) = "true"

\* the module-level LOCAL_MODE after the client initialisation block
StartupMode(env, clientsOk) ==
    IF ~LocalModeFlag(env) THEN (IF clientsOk THEN FALSE ELSE TRUE) ELSE TRUE

\* self.tools as built by MCPServer.__init__: an insertion-ordered dict
ToolQueryTimberKb ==
    PyDict([name |-> PyStr(<<"query_timber_kb">>),
            description |->
                PyStr(<<"Query the Timber knowledge base for troubleshooting information">>),
            inputSchema |-> PyDict([
                type |-> PyStr(<<"object">>),
                properties |-> PyDict([query |-> PyDict([
                    type |-> PyStr(<<"string">>),
                    description |-> PyStr(<<"The question or query about Timber">>)])]),
                required |-> PyList(<<PyStr(<<"query">>)>>)])])

InitialTools == << [key |-> "query_timber_kb", value |-> ToolQueryTimberKb] >>

\* variant: the listing comes back empty
ToolValues_Empty(reg) == PyList(<<>>)

\* list(self.tools.values())
ToolValues(reg) == PyList([i \in DOMAIN reg |-> reg[i].value])

\* ----------------------------------------------------- query_knowledge_base
\* confidence scores are kept in tenths
\* variant: the simulated text does not carry the query
LocalAnswer_WithoutQuery(query) ==
    [response |-> PyStr(<<"[LOCAL MODE] Simulated response for: ">>),
     source |-> "local_simulation", confidence |-> 8]

LocalAnswer(query) ==
    [response |-> PyStr(<<"[LOCAL MODE] Simulated response for: ">> \o Format(query)),
     source |-> "local_simulation", confidence |-> 8]

NothingFoundAnswer ==
    [response |-> PyStr(<<"No relevant information found in the Timber knowledge base.">>),
     source |-> "knowledge_base", confidence |-> 0]

\* variant: the count is the number of passages asked for, not returned
GeneratedAnswer_CountsRequested(text, n) ==
    [response |-> text, source |-> "knowledge_base", confidence |-> 9,
     retrieved_count |-> 5]

GeneratedAnswer(text, n) ==
    [response |-> text, source |-> "knowledge_base", confidence |-> 9,
     retrieved_count |-> n]

ErrorAnswer(e) ==
    [response |-> PyStr(<<"Error querying knowledge base: ", e>>),
     source |-> "error", confidence |-> 0]

\* --------------------------------------------------------- response shapes
\* variant: an error envelope that also carries a null result member
ErrorResponse_WithResult(id, code, message) ==
    PyDict([jsonrpc |-> PyStr(<<"2.0">>), id |-> id, result |-> None,
            error |-> PyDict([code |-> PyInt(code), message |-> PyStr(message)])])

ErrorResponse(id, code, message) ==
    PyDict([jsonrpc |-> PyStr(<<"2.0">>), id |-> id,
            error |-> PyDict([code |-> PyInt(code), message |-> PyStr(message)])])

ResultResponse(id, result) ==
    PyDict([jsonrpc |-> PyStr(<<"2.0">>), id |-> id, result |-> result])

\* variant: the capabilities announce nothing
InitializeResult_NoToolsCapability ==
    PyDict([protocolVersion |-> PyStr(<<"2024-11-05">>),
            capabilities |-> PyDict(<<>>),
            serverInfo |-> PyDict([name |-> PyStr(<<"bedrock-kb-retrieval">>),
                                   version |-> PyStr(<<"1.0.0">>)])])

InitializeResult ==
    PyDict([protocolVersion |-> PyStr(<<"2024-11-05">>),
            capabilities |-> PyDict([tools |-> PyDict(<<>>)]),
            serverInfo |-> PyDict([name |-> PyStr(<<"bedrock-kb-retrieval">>),
                                   version |-> PyStr(<<"1.0.0">>)])])

\* the tools/call result built from an Answer Record
CallResult(answer) ==
    PyDict([content |-> PyList(<<PyDict([type |-> PyStr(<<"text">>),
                                         text |-> answer.response])>>),
            isError |-> PyFalse])

\* variant: the default response does not echo the request id
MethodNotFound_NoId(request, method) ==
    [t |-> "dict",
     d |-> [jsonrpc |-> PyStr(<<"2.0">>), id |-> None,
            error |-> PyDict([code |-> PyInt(-32601),
                              message |-> PyStr(<<"Method not found: ">> \o Format(method))])]]

MethodNotFound(request, method) ==
    ErrorResponse(Get(request, "id", None), -32601,
                  <<"Method not found: ">> \o Format(method))

ParseErrorResponse == ErrorResponse(None, -32700, <<"Parse error">>)

\* ----------------------------------------------------------- handle_request
\* What handle_request(request) does with a dict, up to its return, its
\* raise, or its call of query_knowledge_base when that goes to the backend:
\*   [k |-> "return", response]   [k |-> "raise"]   [k |-> "backend", query]
\* A return that went through query_knowledge_base also carries its answer.
\* variant: a missing query is passed on as None
QueryArgument_DefaultsToNone(arguments) == Get(arguments, "query", None)

\* query = arguments.get("query", "")
QueryArgument(arguments) == Get(arguments, "query", PyStr(<<>>))

handle_request(request, reg, localMode) ==
    LET method == Get(request, "method", None)
        params == Get(request, "params", PyDict(<<>>))
    IN  IF method = PyStr(<<"initialize">>)
          THEN [k |-> "return",
                response |-> ResultResponse(Get(request, "id", None), InitializeResult)]
        ELSE IF method = PyStr(<<"tools/list">>)
          THEN [k |-> "return",
                response |-> ResultResponse(Get(request, "id", None),
                                            PyDict([tools |-> ToolValues(reg)]))]
        ELSE IF method = PyStr(<<"tools/call">>)
          THEN IF ~IsDict(params) THEN [k |-> "raise"]
               ELSE LET tool_name == Get(params, "name", None)
                        arguments == Get(params, "arguments", PyDict(<<>>))
                    IN  IF tool_name = PyStr(<<"query_timber_kb">>)
                          THEN IF ~IsDict(arguments) THEN [k |-> "raise"]
                               ELSE LET query == QueryArgument(arguments)
                                    IN  IF localMode
                                          THEN [k |-> "return",
                                                answer |-> LocalAnswer(query),
                                                response |->
                                                  ResultResponse(
                                                    Get(request, "id", None),
                                                    CallResult(LocalAnswer(query)))]
                                          ELSE [k |-> "backend", query |-> query]
                          ELSE [k |-> "return",
                                response |-> MethodNotFound(request, method)]
        ELSE [k |-> "return", response |-> MethodNotFound(request, method)]

\* the return of handle_request once query_knowledge_base has answered
CallResponse(request, answer) ==
    ResultResponse(Get(request, "id", None), CallResult(answer))

\* ---------------------------------------------------------------------- run
\* variant: the internal-error clause always answers with a null id
InternalErrorHandler_NoId(req) ==
    IF req = Unbound \/ IsDict(req)
      THEN [k |-> "print",
            response |-> [t |-> "dict",
                          d |-> [jsonrpc |-> PyStr(<<"2.0">>), id |-> None,
                                 error |-> PyDict([code |-> PyInt(-32603),
                                                   message |-> PyStr(<<"Internal error">>)])]]]
    ELSE [k |-> "raise"]

\* The "except Exception" clause of the per-line try.  req is the local
\* variable request as it stands: Unbound, or the last value assigned to it.
\*   [k |-> "print", response]   or   [k |-> "raise"] when the clause itself
\*   raises (request.get on a value that is not a dict)
InternalErrorHandler(req) ==
    IF req = Unbound
      THEN [k |-> "print", response |-> ErrorResponse(None, -32603, <<"Internal error">>)]
    ELSE IF IsDict(req)
      THEN [k |-> "print",
            response |-> ErrorResponse(Get(req, "id", None), -32603, <<"Internal error">>)]
    ELSE [k |-> "raise"]

\* The "except json.JSONDecodeError" clause of the per-line try, with the
\* local variable request in scope as req; the clause does not read it.
JSONDecodeErrorHandler(req) == [k |-> "print", response |-> ParseErrorResponse]

\* The body of the while loop for one line read, up to the point where it
\* prints, continues, blocks in the backend, or lets an exception escape.
\*   k: "continue" | "print" | "backend" | "raise"
\*   request: the local variable request afterwards
\*   dispatched: whether handle_request was entered
\*   answer: the Answer Record query_knowledge_base returned, if it was called
LineStep(l, req, reg, localMode) ==
    LET stripped == Strip(l) IN
    IF stripped.raw = "empty"
      THEN [k |-> "continue", request |-> req, dispatched |-> FALSE]
    ELSE LET r == json_loads(stripped) IN
      IF r.exc = "JSONDecodeError"
        THEN JSONDecodeErrorHandler(req)
               @@ [request |-> req, dispatched |-> FALSE, answer |-> Unbound]
      ELSE IF r.exc = "RecursionError"
        THEN InternalErrorHandler(req)
               @@ [request |-> req, dispatched |-> FALSE, answer |-> Unbound]
      ELSE IF ~IsDict(r.val)
        THEN InternalErrorHandler(r.val)
               @@ [request |-> r.val, dispatched |-> FALSE, answer |-> Unbound]
      ELSE LET h == handle_request(r.val, reg, localMode) IN
        IF h.k = "raise"
          THEN InternalErrorHandler(r.val)
                 @@ [request |-> r.val, dispatched |-> TRUE, answer |-> Unbound]
        ELSE IF h.k = "return"
          THEN [k |-> "print", request |-> r.val, dispatched |-> TRUE,
                response |-> h.response,
                answer |-> IF "answer" \in DOMAIN h THEN h.answer ELSE Unbound]
        ELSE [k |-> "backend", request |-> r.val, dispatched |-> TRUE,
              query |-> h.query]

\* -------------------------------------------------------------------- state
VARIABLES
    LOCAL_MODE,         \* module-level flag: TRUE is Simulated, FALSE is Live
    tools,              \* self.tools
    pc,                 \* where run() stands
    exitCode,           \* the process exit status once pc = "exited", else -1
    line,               \* run(): the local variable line
    request,            \* run(): the local variable request
    query,              \* query_knowledge_base(): its argument while it runs
    retrieved_results,  \* query_knowledge_base(): number of passages retrieved
    inp,                \* the lines read from standard input so far
    out,                \* the lines written to standard output so far
    wroteFor,           \* for each line of out, Len(inp) when it was written
    dispatched,         \* number of times handle_request was entered
    backendCalls,       \* backend calls made for the line being processed
    outcomes,           \* what each of these calls did: raised or returned
    result,             \* handle_request(): the Answer Record of this line
    environ,            \* os.environ: the LOCAL_MODE setting, or Unset
    clients             \* the Bedrock client handles: "unset", "ready", "failed"

vars == <<LOCAL_MODE, tools, pc, exitCode, line, request, query,
          retrieved_results, inp, out, wroteFor, dispatched, backendCalls,
          outcomes, result, environ, clients>>

\* print(json.dumps(response), flush=True)
Written(o, response) == Append(o, Encode(response))

\* the client handles after the client initialisation block
StartupClients(env, clientsOk) ==
    IF LocalModeFlag(env) THEN "unset" ELSE IF clientsOk THEN "ready" ELSE "failed"

\* the settings of LOCAL_MODE the sessions of Spec are started with
SessionEnvValues == {Unset, "false"}

Init ==
    /\ \E env \in SessionEnvValues, clientsOk \in BOOLEAN :
          /\ environ = env
          /\ LOCAL_MODE = StartupMode(env, clientsOk)
          /\ clients = StartupClients(env, clientsOk)
    /\ outcomes = <<>>
    /\ result = Unbound
    /\ tools = InitialTools
    /\ pc = "readline"
    /\ exitCode = -1
    /\ line = Unbound
    /\ request = Unbound
    /\ query = Unbound
    /\ retrieved_results = 0
    /\ inp = <<>>
    /\ out = <<>>
    /\ wroteFor = <<>>
    /\ dispatched = 0
    /\ backendCalls = <<>>

\* line = sys.stdin.readline() returns a line
ReadLine ==
    /\ pc = "readline"
    /\ Len(inp) < MaxLines
    /\ \E l \in Lines :
          /\ line' = l
          /\ inp' = Append(inp, l)
    /\ pc' = "body"
    /\ backendCalls' = <<>>
    /\ outcomes' = <<>>
    /\ result' = Unbound
    /\ UNCHANGED <<LOCAL_MODE, tools, exitCode, request, query,
                   retrieved_results, out, wroteFor, dispatched, environ, clients>>

\* readline() returns "" at end-of-stream: break, run() returns
EndOfStream ==
    /\ pc = "readline"
    /\ pc' = "exited"
    /\ exitCode' = 0
    /\ UNCHANGED <<LOCAL_MODE, tools, line, request, query, retrieved_results,
                   inp, out, wroteFor, dispatched, backendCalls, outcomes,
                   result, environ, clients>>

\* KeyboardInterrupt anywhere inside the outer try
Interrupt ==
    /\ pc \notin {"exited", "init_clients"}
    /\ pc' = "exited"
    /\ exitCode' = 0
    /\ UNCHANGED <<LOCAL_MODE, tools, line, request, query, retrieved_results,
                   inp, out, wroteFor, dispatched, backendCalls, outcomes,
                   result, environ, clients>>

\* variant: the loop reads on while the backend query is still pending
AfterLineStep_ReadsOn(k) ==
    CASE k = "continue" -> "readline"
      [] k = "print" -> "readline"
      [] k = "backend" -> "readline"
      [] k = "raise" -> "exited"

\* where the loop goes after the step of the body: back to readline, into
\* the backend, or out through the outer "except Exception" and sys.exit(1)
AfterLineStep(k) ==
    CASE k = "continue" -> "readline"
      [] k = "print" -> "readline"
      [] k = "backend" -> "retrieve"
      [] k = "raise" -> "exited"

\* variant: a tools/call empties the registry
ToolsAfter_DroppedByCall(reg, req) ==
    IF IsDict(req) /\ Get(req, "method", None) = PyStr(<<"tools/call">>)
      THEN <<>>
      ELSE reg

\* self.tools after the body handled the request: no handler assigns it
ToolsAfter(reg, req) == reg

\* the loop body for the line just read
ProcessLine ==
    /\ pc = "body"
    /\ LET s == LineStep(line, request, tools, LOCAL_MODE) IN
          /\ request' = s.request
          /\ dispatched' = IF s.dispatched THEN dispatched + 1 ELSE dispatched
          /\ pc' = AfterLineStep(s.k)
          /\ exitCode' = IF s.k = "raise" THEN 1 ELSE exitCode
          /\ out' = IF s.k = "print" THEN Written(out, s.response) ELSE out
          /\ wroteFor' = IF s.k = "print" THEN Append(wroteFor, Len(inp)) ELSE wroteFor
          /\ query' = IF s.k = "backend" THEN s.query ELSE query
          /\ result' = IF s.k = "print" THEN s.answer ELSE result
          /\ tools' = ToolsAfter(tools, s.request)
    /\ UNCHANGED <<LOCAL_MODE, line, retrieved_results, inp, backendCalls,
                   outcomes, environ, clients>>

\* query_knowledge_base returns answer to handle_request (its locals are
\* gone), which returns the tools/call response to run(), which prints it
ReturnAnswer(answer) ==
    /\ result' = answer
    /\ out' = Written(out, CallResponse(request, answer))
    /\ wroteFor' = Append(wroteFor, Len(inp))
    /\ query' = Unbound
    /\ retrieved_results' = 0
    /\ pc' = "readline"

\* the call raises, or returns n passages
RetrieveOutcomes ==
    {[k |-> "raise", n |-> 0]} \cup {[k |-> "passages", n |-> n] : n \in 0..MaxPassages}

\* variant: an empty retrieval result is passed on to the model
AfterRetrieve_AlwaysGenerates(r) == IF r.k = "raise" THEN "return" ELSE "invoke_model"

\* where query_knowledge_base goes after bedrock_agent_runtime.retrieve
AfterRetrieve(r) == IF r.k = "raise" \/ r.n = 0 THEN "return" ELSE "invoke_model"

\* bedrock_agent_runtime.retrieve(...) and what follows up to invoke_model
Retrieve ==
    /\ pc = "retrieve"
    /\ backendCalls' = Append(backendCalls, "retrieve")
    /\ \E r \in RetrieveOutcomes :
          /\ outcomes' = Append(outcomes, r)
          /\ IF AfterRetrieve(r) = "return"
               THEN /\ ReturnAnswer(IF r.k = "raise"
                                      THEN ErrorAnswer("retrieve failed")
                                      ELSE NothingFoundAnswer)
               ELSE /\ retrieved_results' = r.n
                    /\ pc' = "invoke_model"
                    /\ UNCHANGED <<out, wroteFor, query, result>>
    /\ UNCHANGED <<LOCAL_MODE, tools, exitCode, line, request, inp, dispatched,
                   environ, clients>>

GenerateOutcomes == {"raise", "malformed", "text"}

\* variant: a response body without generated text is answered as empty text
GenerateAnswer_MalformedIsText(g, n) ==
    CASE g = "raise" -> ErrorAnswer("invoke_model failed")
      [] g = "malformed" -> GeneratedAnswer(PyStr(<<"">>), n)
      [] g = "text" -> GeneratedAnswer(PyStr(<<"generated answer">>), n)

\* the Answer Record after bedrock_runtime.invoke_model
GenerateAnswer(g, n) ==
    CASE g = "raise" -> ErrorAnswer("invoke_model failed")
      [] g = "malformed" -> ErrorAnswer("'content'")
      [] g = "text" -> GeneratedAnswer(PyStr(<<"generated answer">>), n)

\* bedrock_runtime.invoke_model(...) and the rest of query_knowledge_base
Generate ==
    /\ pc = "invoke_model"
    /\ backendCalls' = Append(backendCalls, "invoke_model")
    /\ \E g \in GenerateOutcomes :
          /\ outcomes' = Append(outcomes, [k |-> g, n |-> 0])
          /\ ReturnAnswer(GenerateAnswer(g, retrieved_results))
    /\ UNCHANGED <<LOCAL_MODE, tools, exitCode, line, request, inp, dispatched,
                   environ, clients>>

Next ==
    \/ ReadLine
    \/ EndOfStream
    \/ Interrupt
    \/ ProcessLine
    \/ Retrieve
    \/ Generate

Spec == Init /\ [][Next]_vars

\* ---------------------------------------------------- the start of a process
\* The process from the import of the module on: LOCAL_MODE has been read from
\* the environment, the client initialisation block is about to run, the
\* server object does not exist yet.
InitStartup ==
    /\ environ \in EnvValues
    /\ LOCAL_MODE = LocalModeFlag(environ)
    /\ clients = "unset"
    /\ tools = <<>>
    /\ pc = "init_clients"
    /\ exitCode = -1
    /\ line = Unbound
    /\ request = Unbound
    /\ query = Unbound
    /\ retrieved_results = 0
    /\ inp = <<>>
    /\ out = <<>>
    /\ wroteFor = <<>>
    /\ dispatched = 0
    /\ backendCalls = <<>>
    /\ outcomes = <<>>
    /\ result = Unbound

\* LOCAL_MODE after the client initialisation block: an exception raised by
\* boto3.client() is caught and switches to local mode
InitClients_StaysLive(localMode, clientsOk) == localMode

InitClients(localMode, clientsOk) ==
    IF ~localMode THEN (IF clientsOk THEN FALSE ELSE TRUE) ELSE TRUE

\* the client initialisation block, then main(): MCPServer() and run()
Startup ==
    /\ pc = "init_clients"
    /\ \E clientsOk \in BOOLEAN :
          /\ LOCAL_MODE' = InitClients(LOCAL_MODE, clientsOk)
          /\ clients' = IF LOCAL_MODE THEN "unset"
                        ELSE IF clientsOk THEN "ready" ELSE "failed"
    /\ tools' = InitialTools
    /\ pc' = "readline"
    /\ UNCHANGED <<exitCode, line, request, query, retrieved_results, inp, out,
                   wroteFor, dispatched, backendCalls, outcomes, result, environ>>

\* The lines of the sessions that follow a start: one of each kind, all
\* requests with id 1.
ShortShapes ==
    ListingMethodMembers
    \cup {{<<"method", JStr(<<"ping">>)>>}, CallPing,
          {<<"method", JStr(<<"tools/call">>)>>,
           <<"params", JObj(Members(UnregisteredName \cup PingArguments))>>}}

ShortLines ==
    {GarbageLine, DeepLine, JsonLine(JArr(<<>>))}
    \cup {JsonLine(JObj(Members({<<"id", JNum(1)>>} \cup m))) : m \in ShortShapes}

\* line = sys.stdin.readline() in a session of up to MaxLines + 1 short lines
ReadShortLine ==
    /\ pc = "readline"
    /\ Len(inp) < MaxLines + 1
    /\ \E l \in ShortLines :
          /\ line' = l
          /\ inp' = Append(inp, l)
    /\ pc' = "body"
    /\ backendCalls' = <<>>
    /\ outcomes' = <<>>
    /\ result' = Unbound
    /\ UNCHANGED <<LOCAL_MODE, tools, exitCode, request, query,
                   retrieved_results, out, wroteFor, dispatched, environ, clients>>

NextStartup ==
    \/ Startup
    \/ ReadShortLine
    \/ EndOfStream
    \/ Interrupt
    \/ ProcessLine
    \/ Retrieve
    \/ Generate

SpecStartup == InitStartup /\ [][NextStartup]_vars

TypeOK ==
    /\ LOCAL_MODE \in BOOLEAN
    /\ pc \in {"init_clients", "readline", "body", "retrieve", "invoke_model",
              "exited"}
    /\ exitCode \in {-1, 0, 1}
    /\ Len(inp) <= MaxLines + 1
    /\ clients \in {"unset", "ready", "failed"}
    /\ Len(outcomes) = Len(backendCalls)
    /\ Len(out) = Len(wroteFor)

\* ------------------------------------------------- vocabulary of the claims
IsBlankLine(l) == l \in BlankLines
NonBlankIndexes == {i \in 1..Len(inp) : ~IsBlankLine(inp[i])}
NonBlankCount == Cardinality(NonBlankIndexes)

\* the index in inp of the k-th non-blank line read
KthNonBlank(k) ==
    CHOOSE i \in NonBlankIndexes : Cardinality({j \in NonBlankIndexes : j <= i}) = k

\* the line that was being processed when out[k] was written
LineOf(k) == inp[wroteFor[k]]

\* no line is being processed: the loop is about to read, or the process
\* ended otherwise than by an interrupt cutting a line short
NoLineInProgress == pc = "readline" \/ (pc = "exited" /\ exitCode = 1)

IsRequestObject(l) == l.raw = "json" /\ l.j.t = "object"
HasMember(j, key) == key \in DOMAIN j.d
MethodOf(l) == IF HasMember(l.j, "method") THEN l.j.d["method"] ELSE JNull
IdOf(l) == IF HasMember(l.j, "id") THEN l.j.d["id"] ELSE JNull
KnownMethods ==
    {JStr(<<"initialize">>), JStr(<<"tools/list">>), JStr(<<"tools/call">>)}

IsToolsCall(l) ==
    /\ IsRequestObject(l)
    /\ MethodOf(l) = JStr(<<"tools/call">>)
    /\ HasMember(l.j, "params")
    /\ l.j.d["params"].t = "object"
    /\ HasMember(l.j.d["params"], "name")
ToolNameOf(l) == l.j.d["params"].d["name"]
RegistryKeys == {JStr(<<tools[i].key>>) : i \in DOMAIN tools}

IsSuccess(o) == HasMember(o, "result") /\ ~HasMember(o, "error")
IsError(o, code) ==
    /\ HasMember(o, "error")
    /\ ~HasMember(o, "result")
    /\ o.d["error"].d["code"] = JNum(code)

\* the line raises, while it is processed, an exception other than the
\* parse failure of json.loads
RaisesException(l) ==
    /\ ~IsBlankLine(l)
    /\ LET r == json_loads(Strip(l)) IN
          \/ r.exc = "RecursionError"
          \/ /\ r.exc = "none"
             /\ \/ ~IsDict(r.val)
                \/ handle_request(r.val, tools, LOCAL_MODE).k = "raise"

\* a step that is a KeyboardInterrupt
IsInterrupt == pc' = "exited" /\ exitCode' = 0

\* ------------------------------------------------------------------- claims

\* C1: the session loop is never ended by a single request: after handling
\* any non-blank line the loop goes on to read the next one; it stops only
\* on end-of-stream or an interrupt.
C1_LoopSurvivesEveryLine ==
    [][pc = "body" /\ pc' = "exited" => IsInterrupt]_vars

\* C2: each non-blank line causes exactly one response line to be written
\* and a blank line none (the claim has every non-blank line handed to
\* handle_request first): when no line is in progress, the response lines
\* written number the non-blank lines read.
C2_OneResponsePerNonBlankLine ==
    NoLineInProgress => Len(out) = NonBlankCount

\* C3: any exception raised while a non-blank line is processed (other than
\* a parse failure) is turned into exactly one error response with code
\* -32603 and message "Internal error", whatever the decoded value is.
C3_ExceptionBecomesInternalError ==
    [][pc = "body" /\ RaisesException(line) /\ ~IsInterrupt
         => /\ Len(out') = Len(out) + 1
            /\ IsError(out'[Len(out')], -32603)
            /\ out'[Len(out')].d["error"].d["message"] = JStr(<<"Internal error">>)]_vars

\* C4: a tools/call request whose name is not a registered tool is answered
\* with a success envelope (a result, no error), never a protocol error.
C4_UnknownToolIsSuccessEnvelope ==
    \A k \in 1..Len(out) :
        IsToolsCall(LineOf(k)) /\ ToolNameOf(LineOf(k)) \notin RegistryKeys
            => IsSuccess(out[k])

\* C5: a tools/call request naming query_timber_kb is answered, in either
\* mode, for every value of arguments and every backend outcome, with a
\* success envelope holding exactly one text content block and isError false.
C5_RegisteredToolIsSuccessEnvelope ==
    \A k \in 1..Len(out) :
        IsToolsCall(LineOf(k)) /\ ToolNameOf(LineOf(k)) = JStr(<<"query_timber_kb">>)
            => /\ IsSuccess(out[k])
               /\ Len(out[k].d["result"].d["content"].items) = 1
               /\ out[k].d["result"].d["content"].items[1].d["type"] = JStr(<<"text">>)
               /\ out[k].d["result"].d["isError"] = JFalse

\* the i-th line read has been dealt with: the loop came back to readline
Processed(i) == i < Len(inp) \/ pc = "readline"
Answered(i) == \E k \in 1..Len(out) : wroteFor[k] = i

\* the lines that are not the text of any JSON value
UnparseableLines == {GarbageLine, DeepGarbageLine}

\* C6: a line that cannot be parsed as JSON is answered with an error
\* envelope of code -32700 and id null, whatever was processed before it.
C6_ParseErrorHasNullId ==
    /\ \A k \in 1..Len(out) :
          LineOf(k) \in UnparseableLines
              => IsError(out[k], -32700) /\ out[k].d["id"] = JNull
    /\ \A i \in 1..Len(inp) :
          inp[i] \in UnparseableLines /\ Processed(i) => Answered(i)

\* C7: a request object whose method is not initialize, tools/list or
\* tools/call (or that has no method) is answered with an error envelope of
\* code -32601 whose id is the request's id, null when it has none.
C7_UnknownMethodEchoesId ==
    /\ \A k \in 1..Len(out) :
          IsRequestObject(LineOf(k)) /\ MethodOf(LineOf(k)) \notin KnownMethods
              => IsError(out[k], -32601) /\ out[k].d["id"] = IdOf(LineOf(k))
    /\ \A i \in 1..Len(inp) :
          /\ IsRequestObject(inp[i]) /\ MethodOf(inp[i]) \notin KnownMethods
          /\ Processed(i)
          => Answered(i)

C7_Witness ==
    /\ Len(out) = 2 /\ wroteFor = <<1, 2>>
    /\ IsRequestObject(inp[1]) /\ MethodOf(inp[1]) = JStr(<<"ping">>)
    /\ ~HasMember(inp[1].j, "id")
    /\ IsRequestObject(inp[2]) /\ ~HasMember(inp[2].j, "method")
    /\ IdOf(inp[2]) = JNum(2)

\* C8: a line that decodes to a request object carrying an id gets one
\* response, and that response (result, method-not-found or internal error)
\* carries exactly that id.
C8_IdEchoedVerbatim ==
    /\ \A k \in 1..Len(out) :
          IsRequestObject(LineOf(k)) /\ HasMember(LineOf(k).j, "id")
              => /\ out[k].d["id"] = LineOf(k).j.d["id"]
                 /\ \A k2 \in 1..Len(out) : wroteFor[k2] = wroteFor[k] => k2 = k
    /\ \A i \in 1..Len(inp) :
          IsRequestObject(inp[i]) /\ HasMember(inp[i].j, "id") /\ Processed(i)
              => Answered(i)

C8_Witness ==
    /\ Len(out) = 2 /\ wroteFor = <<1, 2>>
    /\ IsSuccess(out[1]) /\ out[1].d["id"] = JNum(1)
    /\ IsError(out[2], -32603) /\ out[2].d["id"] = JNum(2)

\* C9: every response line written has jsonrpc "2.0", an id member, and
\* exactly one of the members result and error.
C9_ResultXorError ==
    \A k \in 1..Len(out) :
        /\ out[k].t = "object"
        /\ HasMember(out[k], "jsonrpc") /\ out[k].d["jsonrpc"] = JStr(<<"2.0">>)
        /\ HasMember(out[k], "id")
        /\ HasMember(out[k], "result") # HasMember(out[k], "error")

C9_Witness ==
    /\ Len(out) = 2
    /\ IsSuccess(out[1])
    /\ IsError(out[2], -32700)

\* C10: at most one request is in flight: the response to a non-blank line,
\* with every retrieval and generation call it triggers, is written before
\* the next line is read, and the k-th response answers the k-th non-blank
\* line read.
C10_OneRequestAtATime ==
    /\ \A k \in 1..Len(out) :
          \E i \in NonBlankIndexes :
              /\ Cardinality({j \in NonBlankIndexes : j <= i}) = k
              /\ wroteFor[k] = i
    /\ pc = "readline" => Len(out) = NonBlankCount
    /\ pc = "body" => Len(out) = Cardinality(NonBlankIndexes \ {Len(inp)})
    /\ pc \in {"retrieve", "invoke_model"}
          => /\ ~IsBlankLine(inp[Len(inp)])
             /\ Len(out) = NonBlankCount - 1

C10_Witness ==
    /\ ~LOCAL_MODE
    /\ pc = "readline"
    /\ Len(inp) = 2 /\ IsBlankLine(inp[1])
    /\ backendCalls = <<"retrieve", "invoke_model">>
    /\ Len(out) = 1 /\ wroteFor = <<2>>

\* ----------------------------------------------------------------------- C11
\* C11: when the input stream ends or an interrupt is received the process
\* terminates with exit code 0, whatever lines came before, and once the
\* session loop has started the process never exits with another code: a
\* process that has exited has exit code 0.
C11_ExitCodeIsZero == pc = "exited" => exitCode = 0

\* ----------------------------------------------------------------------- C12
\* the outcome of the retrieval call made for the line being processed
RetrievalMade == Len(outcomes) >= 1
RetrievalReturned(n) == RetrievalMade /\ outcomes[1] = [k |-> "passages", n |-> n]
NothingFoundText == PyStr(<<"No relevant information found in the Timber knowledge base.">>)

\* C12: in Live mode, when the retrieval call returned zero passages, the
\* Answer Record is the nothing-found answer with provenance knowledge_base
\* and confidence 0.0, and no generation call is made for that request.
C12_NoPassagesNoGeneration ==
    (~LOCAL_MODE /\ RetrievalReturned(0)) =>
        /\ backendCalls = <<"retrieve">>
        /\ pc # "invoke_model"
        /\ result.response = NothingFoundText
        /\ result.source = "knowledge_base"
        /\ result.confidence = 0

C12_Witness ==
    /\ ~LOCAL_MODE
    /\ RetrievalReturned(0)
    /\ pc = "readline"
    /\ result.source = "knowledge_base"
    /\ Len(out) = 1
    /\ out[1].d["result"].d["content"].items[1].d["text"] = JStr(NothingFoundText.s)

\* ----------------------------------------------------------------------- C13
\* the backend call of the line being processed that raised, 0 if none did;
\* extracting the generated text belongs to the generation call
RaisedIn ==
    IF \E i \in DOMAIN outcomes : outcomes[i].k \in {"raise", "malformed"}
      THEN CHOOSE i \in DOMAIN outcomes : outcomes[i].k \in {"raise", "malformed"}
      ELSE 0
ErrorDescription ==
    CASE outcomes[RaisedIn].k = "malformed" -> "'content'"
      [] backendCalls[RaisedIn] = "retrieve" -> "retrieve failed"
      [] OTHER -> "invoke_model failed"
LastText == out[Len(out)].d["result"].d["content"].items[1].d["text"]

\* C13: in Live mode an exception raised by the retrieval call, by the
\* generation call or while extracting the generated text does not leave
\* query_knowledge_base: the Answer Record has provenance error, confidence
\* 0.0 and a text that carries the error description, and the line is
\* answered with a success envelope carrying that text.
C13_BackendExceptionBecomesErrorAnswer ==
    (~LOCAL_MODE /\ RaisedIn # 0) =>
        /\ result.source = "error"
        /\ result.confidence = 0
        /\ result.response = PyStr(<<"Error querying knowledge base: ", ErrorDescription>>)
        /\ exitCode # 1
        /\ Len(out) >= 1
        /\ wroteFor[Len(out)] = Len(inp)
        /\ IsSuccess(out[Len(out)])
        /\ LastText = JStr(result.response.s)

C13_Witness ==
    /\ ~LOCAL_MODE
    /\ RaisedIn = 2
    /\ outcomes[2].k = "malformed"
    /\ result.source = "error"
    /\ Len(out) = 2
    /\ LastText = JStr(<<"Error querying knowledge base: ", "'content'">>)

\* ----------------------------------------------------------------------- C14
Started == pc # "init_clients"
TrueInAnyCase == {"true", "TRUE", "True"}
SimulatedSelected == environ = Unset \/ environ \in TrueInAnyCase
ModeAsDecided ==
    Started => (LOCAL_MODE <=> (SimulatedSelected \/ clients = "failed"))
NoBackendWhenSimulated ==
    (Started /\ LOCAL_MODE) =>
        /\ backendCalls = <<>>
        /\ pc \notin {"retrieve", "invoke_model"}
        /\ clients # "ready"
ModeAndClientsKept ==
    Started => (LOCAL_MODE' = LOCAL_MODE /\ clients' = clients /\ environ' = environ)

\* C14: the mode is decided once at startup and never changes: Simulated
\* when LOCAL_MODE is unset or equals "true" in any letter case, or when Live
\* was selected and the client initialisation failed, and Live otherwise; no
\* request changes the mode, the initialisation is not retried, and in
\* Simulated mode no retrieval or generation call is ever made.
C14_ModeDecidedOnceAtStartup ==
    /\ [](ModeAsDecided /\ NoBackendWhenSimulated)
    /\ [][ModeAndClientsKept]_vars

C14_Witness ==
    /\ environ = "false"
    /\ clients = "failed"
    /\ LOCAL_MODE
    /\ Len(out) = 2
    /\ result # Unbound
    /\ result.source = "local_simulation"
    /\ backendCalls = <<>>

\* ----------------------------------------------------------------------- C15
\* the line is a call of a registered tool that hands an input text to
\* query_knowledge_base: the query argument, or "" when there is none
ArgumentsOf(l) == l.j.d["params"].d["arguments"]
PassesText(l) ==
    /\ IsToolsCall(l)
    /\ ToolNameOf(l) \in RegistryKeys
    /\ HasMember(l.j.d["params"], "arguments") => ArgumentsOf(l).t = "object"
TextPassed(l) ==
    IF HasMember(l.j.d["params"], "arguments") /\ HasMember(ArgumentsOf(l), "query")
      THEN ArgumentsOf(l).d["query"].s
      ELSE <<>>
SimulatedText(text) == <<"[LOCAL MODE] Simulated response for: ">> \o text
TextOf(o) == o.d["result"].d["content"].items[1].d["text"]

\* C15: in Simulated mode query_knowledge_base returns, for every input
\* text, an Answer Record whose text embeds that text unchanged, with
\* provenance local_simulation and confidence 0.8; calls with the same text
\* return equal records, so their responses carry equal texts.
C15_SimulatedAnswerEmbedsQuery ==
    LOCAL_MODE =>
        /\ (pc = "readline" /\ Len(inp) >= 1 /\ PassesText(inp[Len(inp)])) =>
              result = [response |-> PyStr(SimulatedText(TextPassed(inp[Len(inp)]))),
                        source |-> "local_simulation",
                        confidence |-> 8]
        /\ \A k \in 1..Len(out) :
              PassesText(LineOf(k)) =>
                  /\ IsSuccess(out[k])
                  /\ TextOf(out[k]) = JStr(SimulatedText(TextPassed(LineOf(k))))
        /\ \A k1, k2 \in 1..Len(out) :
              (/\ PassesText(LineOf(k1))
               /\ PassesText(LineOf(k2))
               /\ TextPassed(LineOf(k1)) = TextPassed(LineOf(k2))) =>
                  out[k1].d["result"] = out[k2].d["result"]

C15_Witness ==
    /\ LOCAL_MODE
    /\ pc = "readline"
    /\ Len(out) = 2
    /\ PassesText(LineOf(1))
    /\ PassesText(LineOf(2))
    /\ LineOf(1) # LineOf(2)
    /\ TextPassed(LineOf(1)) = <<"ping">>
    /\ TextPassed(LineOf(2)) = <<"ping">>
    /\ TextOf(out[2]) = JStr(<<"[LOCAL MODE] Simulated response for: ", "ping">>)
    /\ result.confidence = 8

\* ----------------------------------------------------------------------- C16
IsToolsList(l) == IsRequestObject(l) /\ MethodOf(l) = JStr(<<"tools/list">>)
ListedTools(o) == o.d["result"].d["tools"].items

\* C16: a tools/list request is answered with a success envelope that echoes
\* the request id and whose tools sequence has exactly one entry per key of
\* the Tool Registry, named as the key, none duplicated or missing, each
\* with a description.
C16_ToolsListMatchesRegistry ==
    \A k \in 1..Len(out) :
        IsToolsList(LineOf(k)) =>
            /\ IsSuccess(out[k])
            /\ out[k].d["id"] = IdOf(LineOf(k))
            /\ Len(ListedTools(out[k])) = Cardinality(RegistryKeys)
            /\ {ListedTools(out[k])[i].d["name"] : i \in DOMAIN ListedTools(out[k])}
                  = RegistryKeys
            /\ \A i \in DOMAIN ListedTools(out[k]) :
                  /\ HasMember(ListedTools(out[k])[i], "description")
                  /\ ListedTools(out[k])[i].d["description"].t = "string"

C16_Witness ==
    /\ Len(out) = 2
    /\ IsToolsList(LineOf(2))
    /\ IdOf(LineOf(2)) = JNum(1)
    /\ out[2].d["id"] = JNum(1)
    /\ Len(ListedTools(out[2])) = 1
    /\ ListedTools(out[2])[1].d["name"] = JStr(<<"query_timber_kb">>)

\* ----------------------------------------------------------------------- C17
SameListingSamePayload ==
    \A k1, k2 \in 1..Len(out) :
        (IsToolsList(LineOf(k1)) /\ LineOf(k2) = LineOf(k1)) =>
            out[k2].d["result"] = out[k1].d["result"]
RegistryKept == Started => tools' = tools

\* C17: two identical tools/list requests of one session get identical result
\* payloads, whatever is processed before or between them, and no request
\* adds, removes or changes an entry of the Tool Registry.
C17_ListingIsStable ==
    /\ []SameListingSamePayload
    /\ [][RegistryKept]_vars

C17_Witness ==
    /\ Len(out) = 3
    /\ wroteFor = <<1, 2, 3>>
    /\ IsToolsList(LineOf(1))
    /\ IsToolsCall(LineOf(2))
    /\ LineOf(3) = LineOf(1)
    /\ out[3].d["result"] = out[1].d["result"]
    /\ Len(ListedTools(out[3])) = 1

\* ----------------------------------------------------------------------- C18
IsInitialize(l) == IsRequestObject(l) /\ MethodOf(l) = JStr(<<"initialize">>)
NonEmptyText(j) == j.t = "string" /\ \E i \in DOMAIN j.s : j.s[i] # ""

\* C18: every initialize request, whatever its params, is answered, and with
\* a success envelope that echoes the request id and whose serverInfo has a
\* non-empty name and whose capabilities have a tools entry; never with an
\* error envelope.
C18_InitializeAlwaysSucceeds ==
    /\ \A i \in 1..Len(inp) : (IsInitialize(inp[i]) /\ Processed(i)) => Answered(i)
    /\ \A k \in 1..Len(out) :
          IsInitialize(LineOf(k)) =>
              /\ IsSuccess(out[k])
              /\ out[k].d["id"] = IdOf(LineOf(k))
              /\ HasMember(out[k].d["result"], "serverInfo")
              /\ HasMember(out[k].d["result"].d["serverInfo"], "name")
              /\ NonEmptyText(out[k].d["result"].d["serverInfo"].d["name"])
              /\ HasMember(out[k].d["result"], "capabilities")
              /\ HasMember(out[k].d["result"].d["capabilities"], "tools")

C18_Witness ==
    /\ Len(out) = 2
    /\ IsInitialize(LineOf(1))
    /\ IsInitialize(LineOf(2))
    /\ HasMember(LineOf(1).j, "params")
    /\ ~HasMember(LineOf(2).j, "id")
    /\ IsSuccess(out[1])
    /\ out[1].d["id"] = JNum(1)
    /\ out[2].d["id"] = JNull
    /\ HasMember(out[2].d["result"].d["capabilities"], "tools")

\* ----------------------------------------------------------------------- C19
CallsTimberKnowledge(l) ==
    /\ IsToolsCall(l)
    /\ ToolNameOf(l) = JStr(<<"query_timber_knowledge">>)
    /\ HasMember(l.j.d["params"], "arguments")
    /\ ArgumentsOf(l).t = "object"
    /\ HasMember(ArgumentsOf(l), "query")

\* C19: in Simulated mode a tools/call request naming query_timber_knowledge
\* with a query argument is answered with a response holding a result whose
\* content list has a first element that carries the answer text.
C19_TimberKnowledgeCallHasContent ==
    LOCAL_MODE =>
        \A k \in 1..Len(out) :
            CallsTimberKnowledge(LineOf(k)) =>
                /\ HasMember(out[k], "result")
                /\ HasMember(out[k].d["result"], "content")
                /\ Len(out[k].d["result"].d["content"].items) >= 1
                /\ HasMember(out[k].d["result"].d["content"].items[1], "text")

\* ----------------------------------------------------------------------- C20
GenerationMade == Len(backendCalls) >= 2 \/ pc = "invoke_model"
BothSucceeded ==
    /\ Len(outcomes) = 2
    /\ outcomes[1].k = "passages"
    /\ outcomes[2].k = "text"

\* C20: in Live mode a line triggers backend calls only if it is a
\* tools/call request, and then at most one retrieval call and at most one
\* generation call, in that order, none repeated after a failure; the
\* generation call is made only after the retrieval call of the same request
\* returned at least one passage; and when both succeed the Answer Record
\* has provenance knowledge_base, confidence 0.9 and a retrieved count equal
\* to the number of passages the retrieval returned.
C20_OneRetrievalOneGeneration ==
    ~LOCAL_MODE =>
        /\ backendCalls \in {<<>>, <<"retrieve">>, <<"retrieve", "invoke_model">>}
        /\ (backendCalls # <<>> \/ pc \in {"retrieve", "invoke_model"}) =>
              IsToolsCall(inp[Len(inp)])
        /\ GenerationMade =>
              /\ RetrievalMade
              /\ outcomes[1].k = "passages"
              /\ outcomes[1].n >= 1
        /\ BothSucceeded =>
              /\ result.source = "knowledge_base"
              /\ result.confidence = 9
              /\ result.retrieved_count = outcomes[1].n

C20_Witness ==
    /\ ~LOCAL_MODE
    /\ pc = "readline"
    /\ BothSucceeded
    /\ outcomes[1].n = MaxPassages
    /\ result.retrieved_count = MaxPassages
    /\ TextOf(out[Len(out)]) = JStr(<<"generated answer">>)

\* ----------------------------------------------------------------------- C21
\* the id a line carries: that of a request object with an id, else none
IdCarried(l) == IF IsRequestObject(l) THEN IdOf(l) ELSE JNull

\* C21: no request data persists across requests: the id of a response is
\* null or the id of the line it answers, never that of an earlier line, also
\* when the line fails before it is decoded; and in Simulated mode the
\* response to a line depends on that line alone, so a line gets the same
\* response wherever it stands in the session.
C21_NoRequestDataPersists ==
    /\ \A k \in 1..Len(out) : out[k].d["id"] \in {JNull, IdCarried(LineOf(k))}
    /\ LOCAL_MODE =>
          \A k1, k2 \in 1..Len(out) : LineOf(k1) = LineOf(k2) => out[k1] = out[k2]

\* ----------------------------------------------------------------------- C22
\* a call of query_timber_kb without the arguments member, or with an
\* arguments object that has no query field
LacksQuery(l) ==
    /\ IsToolsCall(l)
    /\ ToolNameOf(l) = JStr(<<"query_timber_kb">>)
    /\ \/ ~HasMember(l.j.d["params"], "arguments")
       \/ /\ ArgumentsOf(l).t = "object"
          /\ ~HasMember(ArgumentsOf(l), "query")
EmptyText == PyStr(<<>>)

\* C22: a tools/call request naming query_timber_kb whose params lack the
\* arguments member, or whose arguments object lacks the query field, is not
\* rejected: the backend is queried with the empty string (in Simulated mode
\* the answer is the one for the empty string, in Live mode the retrieval and
\* generation calls run with the empty string as query) and the response is
\* a success envelope with isError false.
C22_MissingQueryIsEmptyString ==
    /\ \A i \in 1..Len(inp) : (LacksQuery(inp[i]) /\ Processed(i)) => Answered(i)
    /\ \A k \in 1..Len(out) :
          LacksQuery(LineOf(k)) =>
              /\ IsSuccess(out[k])
              /\ out[k].d["result"].d["isError"] = JFalse
              /\ LOCAL_MODE => TextOf(out[k]) = JStr(SimulatedText(EmptyText.s))
    /\ (Len(inp) >= 1 /\ LacksQuery(inp[Len(inp)])) =>
          /\ pc \in {"retrieve", "invoke_model"} => query = EmptyText
          /\ (pc = "readline" /\ LOCAL_MODE) => result = LocalAnswer(EmptyText)
          /\ (pc = "readline" /\ ~LOCAL_MODE) => backendCalls # <<>>
          /\ exitCode # 1

C22_Witness ==
    /\ ~LOCAL_MODE
    /\ pc = "invoke_model"
    /\ Len(inp) = 2
    /\ LacksQuery(inp[1])
    /\ LacksQuery(inp[2])
    /\ ~HasMember(inp[1].j.d["params"], "arguments")
    /\ HasMember(inp[2].j.d["params"], "arguments")
    /\ query = EmptyText
    /\ IsSuccess(out[1])
    /\ out[1].d["result"].d["isError"] = JFalse

====
